---- MODULE Spec2Model ----
(***************************************************************************)
(* State-machine model of the VAD-TTS client (src/client.py), its          *)
(* playback controller and signal handler, and the synthesis server        *)
(* (src/server.py).                                                        *)
(*                                                                         *)
(* Threads of the client process:                                          *)
(*   main     asyncio task tts_client; signal_handler runs on top of it    *)
(*   vad      vad_worker                                                   *)
(*   mon[i]   start_playback.monitor, one thread per playback session      *)
(* Time is discrete, one unit per second of time.time().                   *)
(*                                                                         *)
(* A step of a thread ends at each access to state another thread shares   *)
(* (the event, the lock, the device, the socket, running); statements on   *)
(* thread-local state are folded into the step that precedes them.         *)
(***************************************************************************)
EXTENDS Integers, Sequences, FiniteSets, TLC

(* ---------------- program constants ---------------- *)
min_speech_frames == 3
silence_duration_threshold == 1
reconnect_delay == 5
None == -1
threshold_playback == 85      \* client_silero_hindi.py:95, in hundredths
threshold_idle == 50          \* client_silero_hindi.py:97, in hundredths
EmptyPayload == 0

(* ---------------- bounds of the model ---------------- *)
NumTexts == 2
MaxMonitors == 2
MaxSpeechFrames == 3

text_statements == 1..NumTexts
Monitors == 1..MaxMonitors

VARIABLES
  running,               \* client.py:16
  sig_pc,                \* position of signal_handler on the main thread
  pc,                    \* position of tts_client
  tts_requested,         \* client.py:41
  tts_audio,             \* client.py:42
  wav_bytes,             \* argument of the start_playback call in progress
  backoff_elapsed,       \* seconds spent in asyncio.sleep(reconnect_delay)
  speech_started_event,  \* client.py:38
  speech_frames_counter, \* vad_worker local
  since_voice,           \* time.time() - last_voice_time, saturating
  speech_run,            \* history: length of the current run of speech frames
  silent_for,            \* history: seconds since a frame was classified speech
  vad_fault,             \* history: the error, if any, of the last iteration
  sil_pc,                \* position of vad_worker of client_silero_hindi.py
  effective_threshold,   \* client_silero_hindi.py:95,97
  quiet_run,             \* history: length of the current run of windows
                         \* without speech
  playback_lock,         \* owner of threading.Lock, or "free"
  playback_active,       \* client.py:57
  sd_left,               \* seconds of output sounddevice still has to play
  mon,                   \* monitor threads
  conn,                  \* websocket connection: "closed", "open", "lost"
  c2s,                   \* text frames in flight, client to server
  s2c,                   \* binary frames in flight, server to client
  srv_pc,                \* position of tts_handler for this connection
  srv_msg,               \* message being handled by tts_handler
  srv_wav,               \* wav_bytes built by tts_handler
  srv_replies,           \* history: replies sent for srv_msg
  outstanding,           \* history: requests sent minus replies received
  last_sent,             \* history: text of the request not yet answered
  plays,                 \* history: start_playback calls with the held payload
  barge_pending          \* history: barge-in stop not yet followed by a send

vars == << running, sig_pc, pc, tts_requested, tts_audio, wav_bytes,
           backoff_elapsed, speech_started_event, speech_frames_counter,
           since_voice, speech_run, silent_for, vad_fault,
           sil_pc, effective_threshold, quiet_run,
           playback_lock, playback_active,
           sd_left, mon, conn, c2s, s2c,
           srv_pc, srv_msg, srv_wav, srv_replies, outstanding, last_sent,
           plays, barge_pending >>

vadVars == << speech_started_event, speech_frames_counter, since_voice,
              speech_run, silent_for, vad_fault,
              sil_pc, effective_threshold, quiet_run >>
srvVars == << srv_pc, srv_msg, srv_wav, srv_replies >>
netVars == << conn, c2s, s2c >>
histVars == << outstanding, last_sent, plays, barge_pending >>
clientVars == << tts_requested, tts_audio, wav_bytes, backoff_elapsed >>

(* A monitor thread: its position and start_time + duration - time.time(). *)
IdleMonitor == [pc |-> "idle", left |-> 0]

(* Monitor threads run the same code and are told apart by nothing: mon    *)
(* lists them in a fixed order of their states.                            *)
MonRank(m) ==
  (CASE m.pc = "chk" -> 4 [] m.pc = "final_cs" -> 3 [] m.pc = "sleep" -> 2
     [] m.pc = "final" -> 1 [] OTHER -> 0) * (NumTexts + 3) + m.left

Ordered(m) ==
  LET p == CHOOSE q \in Permutations(Monitors) :
             \A i, j \in Monitors :
               i < j => MonRank(m[q[i]]) >= MonRank(m[q[j]])
  IN [i \in Monitors |-> m[p[i]]]

Init ==
  /\ running = TRUE
  /\ sig_pc = "none"
  /\ pc = "outer"
  /\ tts_requested = FALSE
  /\ tts_audio = None
  /\ wav_bytes = None
  /\ backoff_elapsed = 0
  /\ speech_started_event = FALSE
  /\ speech_frames_counter = 0
  /\ since_voice = 0
  /\ speech_run = 0
  /\ silent_for = 0
  /\ vad_fault = "none"
  /\ sil_pc = "read"
  /\ effective_threshold = None
  /\ quiet_run = 0
  /\ playback_lock = "free"
  /\ playback_active = FALSE
  /\ sd_left = 0
  /\ mon = [i \in Monitors |-> IdleMonitor]
  /\ conn = "closed"
  /\ c2s = << >>
  /\ s2c = << >>
  /\ srv_pc = "ended"
  /\ srv_msg = None
  /\ srv_wav = None
  /\ srv_replies = 0
  /\ outstanding = 0
  /\ last_sent = None
  /\ plays = 0
  /\ barge_pending = FALSE

(* The process is alive until sys.exit(0) in signal_handler. *)
Alive == sig_pc # "exited"

(* The main thread executes tts_client only while no handler frame is on   *)
(* top of it.                                                              *)
MainRuns == sig_pc = "none"

(* ---------------- pure helpers ---------------- *)

Min(a, b) == IF a < b THEN a ELSE b

(* sf.read on the payload: the zero-length payload is not a WAV file.      *)
Decodable(p) == p # EmptyPayload /\ p # None

(* pipeline(message) + sf.write: the WAV payload for a text, named by the  *)
(* text it renders.                                                        *)
Synthesize(text) == text

(* duration = len(audio_data) / sample_rate_audio, in seconds: the texts   *)
(* alternate between long and short utterances.                            *)
Duration(p) == 1 + (p % 2)

(* sounddevice is producing output. *)
SdPlaying == sd_left > 0

(* ================= tts_client (client.py:152-209) ================= *)

(* Leaving "async with" closes the websocket; the server's "async for"     *)
(* ends (server.py:14,37-38).                                              *)
CloseConn ==
  /\ conn' = "closed" /\ c2s' = << >> /\ s2c' = << >>
  /\ srv_pc' = "ended" /\ srv_msg' = None /\ srv_wav' = None /\ srv_replies' = 0
  /\ outstanding' = 0 /\ last_sent' = None

(* client.py:163  while running: (tts_client returns when it is false) *)
LoopOuter ==
  /\ Alive /\ MainRuns /\ pc = "outer"
  /\ pc' = IF running THEN "connect" ELSE "done"
  /\ UNCHANGED << running, sig_pc, clientVars, vadVars, playback_lock,
                  playback_active, sd_left, mon, netVars, srvVars, histVars >>

(* client.py:165  websockets.connect succeeds; the server starts a         *)
(* tts_handler for the new connection (server.py:11-14).                   *)
ConnectOk ==
  /\ Alive /\ MainRuns /\ pc = "connect"
  /\ pc' = "inner"
  /\ conn' = "open" /\ c2s' = << >> /\ s2c' = << >>
  /\ srv_pc' = "wait" /\ srv_msg' = None /\ srv_wav' = None /\ srv_replies' = 0
  /\ outstanding' = 0 /\ last_sent' = None
  /\ UNCHANGED << running, sig_pc, clientVars, vadVars, playback_lock,
                  playback_active, sd_left, mon, plays, barge_pending >>

(* client.py:165,207-209  websockets.connect raises.                       *)
ConnectFail ==
  /\ Alive /\ MainRuns /\ pc = "connect"
  /\ pc' = "backoff" /\ backoff_elapsed' = 0
  /\ UNCHANGED << running, sig_pc, tts_requested, tts_audio, wav_bytes,
                  vadVars, playback_lock, playback_active, sd_left, mon,
                  netVars, srvVars, histVars >>

(* client.py:167  while running:  and, when it is true, client.py:169,149  *)
(* is_playback_active() enters "with playback_lock:".                      *)
LoopInner ==
  /\ Alive /\ MainRuns /\ pc = "inner"
  /\ IF running
       THEN /\ playback_lock = "free"
            /\ playback_lock' = "main"
            /\ pc' = "chk_active_cs"
            /\ UNCHANGED << netVars, srvVars, outstanding, last_sent >>
       ELSE /\ pc' = "outer"
            /\ CloseConn
            /\ UNCHANGED playback_lock
  /\ UNCHANGED << running, sig_pc, clientVars, vadVars,
                  playback_active, sd_left, mon, plays, barge_pending >>

(* "with playback_lock:" entered by the main thread at pc from.            *)
MainAcquire(from, to) ==
  /\ Alive /\ MainRuns /\ pc = from
  /\ playback_lock = "free"
  /\ playback_lock' = "main"
  /\ pc' = to
  /\ UNCHANGED << running, sig_pc, clientVars, vadVars, playback_active,
                  sd_left, mon, netVars, srvVars, histVars >>

(* client.py:169,150  is_playback_active() returns the flag read under the *)
(* lock.                                                                   *)
IsActiveRead ==
  /\ Alive /\ MainRuns /\ pc = "chk_active_cs"
  /\ playback_lock = "main"
  /\ playback_lock' = "free"
  /\ pc' = IF playback_active THEN "barge_chk" ELSE "req_chk"
  /\ UNCHANGED << running, sig_pc, clientVars, vadVars, playback_active,
                  sd_left, mon, netVars, srvVars, histVars >>

(* client.py:170  if speech_started_event.is_set(): ... else 183 *)
BargeCheck ==
  /\ Alive /\ MainRuns /\ pc = "barge_chk"
  /\ pc' = IF speech_started_event THEN "barge_stop" ELSE "sleep"
  /\ UNCHANGED << running, sig_pc, clientVars, vadVars, playback_lock,
                  playback_active, sd_left, mon, netVars, srvVars, histVars >>

(* client.py:172,139  stop_playback_safely(): with playback_lock: *)
BargeStopAcquire == MainAcquire("barge_stop", "barge_stop_cs")

(* StopBody without line 145: the device is stopped, the flag stays set.   *)
StopBodyKeepsFlag(owner) ==
  /\ playback_lock = owner
  /\ playback_lock' = "free"
  /\ sd_left' = IF playback_active THEN 0 ELSE sd_left
  /\ UNCHANGED playback_active

(* stop_playback_safely body, client.py:140-145, run by thread owner.      *)
(* sd.stop() either halts the output or raises, and the exception is       *)
(* printed (lines 143-144) with the output left as it is; line 145 runs in *)
(* both cases.                                                             *)
StopBody(owner) ==
  /\ playback_lock = owner
  /\ playback_lock' = "free"
  /\ IF playback_active
       THEN /\ \E halted \in BOOLEAN :
                 sd_left' = IF halted THEN 0 ELSE sd_left
            /\ playback_active' = FALSE
       ELSE UNCHANGED << sd_left, playback_active >>

(* client.py:172,140-145 *)
BargeStopBody ==
  /\ Alive /\ MainRuns /\ pc = "barge_stop_cs"
  /\ StopBody("main")
  /\ pc' = "barge_reset"
  /\ barge_pending' = TRUE
  /\ UNCHANGED << running, sig_pc, clientVars, vadVars, mon, netVars,
                  srvVars, outstanding, last_sent, plays >>

(* BargeReset with the immediate request forgotten: the tick ends and the  *)
(* request is left to the next poll.                                       *)
BargeResetNoRequest ==
  /\ Alive /\ MainRuns /\ pc = "barge_reset"
  /\ tts_requested' = FALSE
  /\ tts_audio' = None
  /\ plays' = 0
  /\ pc' = "sleep"
  /\ UNCHANGED << running, sig_pc, wav_bytes, backoff_elapsed, vadVars,
                  playback_lock, playback_active, sd_left, mon, netVars,
                  srvVars, outstanding, last_sent, barge_pending >>

(* client.py:174-176  reset, then re-read the event. *)
BargeReset ==
  /\ Alive /\ MainRuns /\ pc = "barge_reset"
  /\ tts_requested' = FALSE
  /\ tts_audio' = None
  /\ plays' = 0
  /\ pc' = IF speech_started_event /\ ~tts_requested' THEN "barge_send" ELSE "sleep"
  /\ UNCHANGED << running, sig_pc, wav_bytes, backoff_elapsed, vadVars,
                  playback_lock, playback_active, sd_left, mon, netVars,
                  srvVars, outstanding, last_sent, barge_pending >>

(* SendOk with tts_requested set when the request is sent rather than     *)
(* when its reply has arrived.                                             *)
SendOkMarksRequested(from, to) ==
  /\ Alive /\ MainRuns /\ pc = from
  /\ conn = "open"
  /\ \E text \in text_statements :
       /\ c2s' = Append(c2s, text)
       /\ last_sent' = text
  /\ outstanding' = outstanding + 1
  /\ barge_pending' = FALSE
  /\ tts_requested' = TRUE
  /\ pc' = to
  /\ UNCHANGED << running, sig_pc, tts_audio, wav_bytes, backoff_elapsed,
                  vadVars, playback_lock, playback_active, sd_left, mon,
                  conn, s2c, srvVars, plays >>

(* await websocket.send(random.choice(text_statements)) on an open         *)
(* connection.                                                             *)
SendOk(from, to) ==
  /\ Alive /\ MainRuns /\ pc = from
  /\ conn = "open"
  /\ \E text \in text_statements :
       /\ c2s' = Append(c2s, text)
       /\ last_sent' = text
  /\ outstanding' = outstanding + 1
  /\ barge_pending' = FALSE
  /\ pc' = to
  /\ UNCHANGED << running, sig_pc, clientVars, vadVars, playback_lock,
                  playback_active, sd_left, mon, conn, s2c, srvVars, plays >>

(* send or recv raises ConnectionClosed: "async with" is left and the      *)
(* handler at client.py:204-206 starts the backoff sleep.                  *)
TransportFail(from) ==
  /\ Alive /\ MainRuns /\ pc = from
  /\ conn = "lost"
  /\ CloseConn
  /\ pc' = "backoff" /\ backoff_elapsed' = 0
  /\ UNCHANGED << running, sig_pc, tts_requested, tts_audio, wav_bytes,
                  vadVars, playback_lock, playback_active, sd_left, mon,
                  plays, barge_pending >>

(* RecvOk with line 182/193 forgotten: the reply is held but the request   *)
(* is not marked.                                                          *)
RecvOkLeavesRequested(from, to) ==
  /\ Alive /\ MainRuns /\ pc = from
  /\ s2c # << >>
  /\ tts_audio' = Head(s2c).payload
  /\ s2c' = Tail(s2c)
  /\ outstanding' = outstanding - 1
  /\ last_sent' = None
  /\ plays' = 0
  /\ pc' = to
  /\ UNCHANGED << running, sig_pc, tts_requested, wav_bytes, backoff_elapsed,
                  vadVars, playback_lock, playback_active, sd_left, mon, conn,
                  c2s, srvVars, barge_pending >>

(* tts_audio = await websocket.recv(); tts_requested = True *)
RecvOk(from, to) ==
  /\ Alive /\ MainRuns /\ pc = from
  /\ s2c # << >>
  /\ tts_audio' = Head(s2c).payload
  /\ s2c' = Tail(s2c)
  /\ tts_requested' = TRUE
  /\ outstanding' = outstanding - 1
  /\ last_sent' = None
  /\ plays' = 0
  /\ pc' = to
  /\ UNCHANGED << running, sig_pc, wav_bytes, backoff_elapsed, vadVars,
                  playback_lock, playback_active, sd_left, mon, conn, c2s,
                  srvVars, barge_pending >>

(* BargeSend with the reply not awaited before the tick ends. *)
BargeSendNoRecv == SendOk("barge_send", "sleep")

(* client.py:179 *)
BargeSend == SendOk("barge_send", "barge_recv")

BargeSendFail == TransportFail("barge_send")

(* client.py:180-182, then 183 *)
BargeRecv == RecvOk("barge_recv", "sleep")

BargeRecvFail == TransportFail("barge_recv")

(* client.py:187 *)
ReqCheck ==
  /\ Alive /\ MainRuns /\ pc = "req_chk"
  /\ pc' = IF speech_started_event /\ ~tts_requested THEN "send" ELSE "play_chk"
  /\ UNCHANGED << running, sig_pc, clientVars, vadVars, playback_lock,
                  playback_active, sd_left, mon, netVars, srvVars, histVars >>

(* client.py:190 *)
Send == SendOk("send", "recv")

SendFail == TransportFail("send")

(* client.py:191-193 *)
Recv == RecvOk("recv", "play_chk")

RecvFail == TransportFail("recv")

(* PlayCheck without the test of the event. *)
PlayCheckIgnoresSpeech ==
  /\ Alive /\ MainRuns /\ pc = "play_chk"
  /\ pc' = IF tts_audio # None THEN "play_active" ELSE "sleep"
  /\ UNCHANGED << running, sig_pc, clientVars, vadVars, playback_lock,
                  playback_active, sd_left, mon, netVars, srvVars, histVars >>

(* client.py:196  (not speech_started_event.is_set()) and tts_audio is not *)
(* None and ... : the two conjuncts evaluated before is_playback_active(). *)
PlayCheck ==
  /\ Alive /\ MainRuns /\ pc = "play_chk"
  /\ pc' = IF ~speech_started_event /\ tts_audio # None
             THEN "play_active" ELSE "sleep"
  /\ UNCHANGED << running, sig_pc, clientVars, vadVars, playback_lock,
                  playback_active, sd_left, mon, netVars, srvVars, histVars >>

(* client.py:196,149  ... and not is_playback_active() *)
PlayActiveAcquire == MainAcquire("play_active", "play_active_cs")

(* client.py:196,150 the flag is read; when it is false, client.py:198     *)
(* calls start_playback(tts_audio), whose lines 107-110 decode the payload *)
(* (sf.read raises on a payload that is no WAV file).                      *)
PlayActiveRead ==
  /\ Alive /\ MainRuns /\ pc = "play_active_cs"
  /\ playback_lock = "main"
  /\ playback_lock' = "free"
  /\ IF playback_active
       THEN /\ pc' = "sleep"
            /\ UNCHANGED << wav_bytes, plays >>
       ELSE /\ wav_bytes' = tts_audio
            /\ plays' = plays + 1
            /\ pc' = IF Decodable(tts_audio) THEN "start_lock" ELSE "start_exc"
  /\ UNCHANGED << running, sig_pc, tts_requested, tts_audio, backoff_elapsed,
                  vadVars, playback_active, sd_left, mon, netVars, srvVars,
                  outstanding, last_sent, barge_pending >>

(* ResetAfterStart with line 201 forgotten: the payload stays held. *)
ResetKeepsAudio ==
  /\ tts_requested' = FALSE
  /\ UNCHANGED << tts_audio, plays >>

(* client.py:200-201, after start_playback has returned. *)
ResetAfterStart ==
  /\ tts_requested' = FALSE
  /\ tts_audio' = None
  /\ plays' = 0

(* client.py:183-184 and 203  await asyncio.sleep(0.05) *)
Sleep ==
  /\ Alive /\ MainRuns /\ pc = "sleep"
  /\ pc' = "inner"
  /\ UNCHANGED << running, sig_pc, clientVars, vadVars, playback_lock,
                  playback_active, sd_left, mon, netVars, srvVars, histVars >>

(* client.py:206,209  await asyncio.sleep(reconnect_delay) returns. *)
Backoff ==
  /\ Alive /\ MainRuns /\ pc = "backoff"
  /\ backoff_elapsed >= reconnect_delay
  /\ backoff_elapsed' = 0
  /\ pc' = "outer"
  /\ UNCHANGED << running, sig_pc, tts_requested, tts_audio, wav_bytes,
                  vadVars, playback_lock, playback_active, sd_left, mon,
                  netVars, srvVars, histVars >>

(* ================= start_playback (client.py:99-132) ================= *)

(* client.py:111 *)
StartAcquire == MainAcquire("start_lock", "start_cs")

(* client.py:112 *)
StartSetActive ==
  /\ Alive /\ MainRuns /\ pc = "start_cs"
  /\ playback_lock = "main"
  /\ playback_active' = TRUE
  /\ playback_lock' = "free"
  /\ pc' = "start_play"
  /\ UNCHANGED << running, sig_pc, clientVars, vadVars, sd_left, mon,
                  netVars, srvVars, histVars >>

(* The slot of a new threading.Thread. *)
FreeMonitor == CHOOSE i \in Monitors : mon[i].pc = "idle"

(* client.py:119  while time.time() - start_time < duration and running:   *)
(* the monitor goes on to sleep and re-check, or leaves the loop.          *)
MonLoopTest(left) == IF left > 0 /\ running THEN "sleep" ELSE "final"

(* client.py:113-128  sd.play starts the output; the monitor thread is     *)
(* started, takes start_time and tests its loop condition; start_playback  *)
(* returns and client.py:200-201 reset the request state.                  *)
StartPlay ==
  /\ Alive /\ MainRuns /\ pc = "start_play"
  /\ \E i \in Monitors : mon[i].pc = "idle"
  /\ sd_left' = Duration(wav_bytes)
  /\ mon' = Ordered([mon EXCEPT ![FreeMonitor] =
               [pc |-> MonLoopTest(Duration(wav_bytes)),
                left |-> Duration(wav_bytes)]])
  /\ wav_bytes' = None
  /\ ResetAfterStart
  /\ pc' = "sleep"
  /\ UNCHANGED << running, sig_pc, backoff_elapsed, vadVars, playback_lock,
                  playback_active, netVars, srvVars, outstanding, last_sent,
                  barge_pending >>

(* client.py:113,129-130  sd.play raises (device error). *)
StartPlayFail ==
  /\ Alive /\ MainRuns /\ pc = "start_play"
  /\ pc' = "start_exc"
  /\ UNCHANGED << running, sig_pc, clientVars, vadVars, playback_lock,
                  playback_active, sd_left, mon, netVars, srvVars, histVars >>

(* client.py:131 *)
StartExcAcquire == MainAcquire("start_exc", "start_exc_cs")

(* StartExcBody without line 132: the flag is left as the failed start     *)
(* set it.                                                                 *)
StartExcBodyKeepsActive ==
  /\ Alive /\ MainRuns /\ pc = "start_exc_cs"
  /\ playback_lock = "main"
  /\ playback_lock' = "free"
  /\ wav_bytes' = None
  /\ ResetAfterStart
  /\ pc' = "sleep"
  /\ UNCHANGED << running, sig_pc, backoff_elapsed, vadVars, playback_active,
                  sd_left, mon, netVars, srvVars, outstanding, last_sent,
                  barge_pending >>

(* client.py:132; start_playback returns and client.py:200-201 reset the   *)
(* request state.                                                          *)
StartExcBody ==
  /\ Alive /\ MainRuns /\ pc = "start_exc_cs"
  /\ playback_lock = "main"
  /\ playback_active' = FALSE
  /\ playback_lock' = "free"
  /\ wav_bytes' = None
  /\ ResetAfterStart
  /\ pc' = "sleep"
  /\ UNCHANGED << running, sig_pc, backoff_elapsed, vadVars, sd_left, mon,
                  netVars, srvVars, outstanding, last_sent, barge_pending >>

(* ================= start_playback.monitor (client.py:116-125) ========== *)

(* client.py:120-121  time.sleep(0.1); with playback_lock: *)
MonAcquireCheck(i) ==
  /\ Alive /\ mon[i].pc = "sleep"
  /\ playback_lock = "free"
  /\ playback_lock' = "monitor"
  /\ mon' = Ordered([mon EXCEPT ![i].pc = "chk"])
  /\ UNCHANGED << running, sig_pc, pc, clientVars, vadVars, playback_active,
                  sd_left, netVars, srvVars, histVars >>

(* client.py:122-123  if not playback_active: return (the thread ends);    *)
(* otherwise the lock is released and line 119 tests the loop condition.   *)
MonCheck(i) ==
  /\ Alive /\ mon[i].pc = "chk"
  /\ playback_lock = "monitor"
  /\ playback_lock' = "free"
  /\ mon' = Ordered([mon EXCEPT ![i] =
               IF ~playback_active THEN IdleMonitor
               ELSE [mon[i] EXCEPT !.pc = MonLoopTest(mon[i].left)]])
  /\ UNCHANGED << running, sig_pc, pc, clientVars, vadVars, playback_active,
                  sd_left, netVars, srvVars, histVars >>

(* client.py:124 *)
MonAcquireFinal(i) ==
  /\ Alive /\ mon[i].pc = "final"
  /\ playback_lock = "free"
  /\ playback_lock' = "monitor"
  /\ mon' = Ordered([mon EXCEPT ![i].pc = "final_cs"])
  /\ UNCHANGED << running, sig_pc, pc, clientVars, vadVars, playback_active,
                  sd_left, netVars, srvVars, histVars >>

(* client.py:125  playback_active = False, the thread ends. *)
MonClear(i) ==
  /\ Alive /\ mon[i].pc = "final_cs"
  /\ playback_lock = "monitor"
  /\ playback_active' = FALSE
  /\ playback_lock' = "free"
  /\ mon' = Ordered([mon EXCEPT ![i] = IdleMonitor])
  /\ UNCHANGED << running, sig_pc, pc, clientVars, vadVars, sd_left, netVars,
                  srvVars, histVars >>

(* ================= signal_handler (client.py:19-24) ================= *)

(* SIGINT is delivered: the handler frame is pushed on the main thread     *)
(* wherever tts_client stands, and line 22 clears running.                 *)
Interrupt ==
  /\ sig_pc = "none" /\ pc # "done"
  /\ running' = FALSE
  /\ sig_pc' = "h_stop"
  /\ UNCHANGED << pc, clientVars, vadVars, playback_lock, playback_active,
                  sd_left, mon, netVars, srvVars, histVars >>

(* client.py:23,139-145  stop_playback_safely() takes playback_lock.       *)
(* threading.Lock is not reentrant: the handler waits also when the owner  *)
(* is the main thread it interrupted. With the lock it stops the device if *)
(* playback is active and releases the lock; client.py:24 sys.exit(0) ends *)
(* the process, its daemon threads with it, and closes its socket.         *)
HandlerStopExit ==
  /\ sig_pc = "h_stop"
  /\ playback_lock = "free"
  /\ IF playback_active
       THEN /\ sd_left' = 0
            /\ playback_active' = FALSE
       ELSE UNCHANGED << sd_left, playback_active >>
  /\ sig_pc' = "exited"
  /\ mon' = [i \in Monitors |-> IdleMonitor]
  /\ CloseConn
  /\ UNCHANGED << running, pc, clientVars, vadVars, playback_lock, plays,
                  barge_pending >>

(* ================= vad_worker (client.py:60-97) ================= *)

(* Debounce with last_voice_time taken only by the frame that sets the     *)
(* event, not by every speech frame.                                       *)
DebounceStampsOnSet(is_speech) ==
  IF is_speech
    THEN /\ speech_frames_counter' = speech_frames_counter + 1
         /\ since_voice' = IF speech_frames_counter' >= min_speech_frames
                                /\ ~speech_started_event
                             THEN 0 ELSE since_voice
         /\ speech_started_event' =
              IF speech_frames_counter' >= min_speech_frames
                THEN TRUE ELSE speech_started_event
    ELSE LET ended == speech_started_event
                      /\ since_voice > silence_duration_threshold
             counter == IF ended THEN 0 ELSE speech_frames_counter
         IN /\ speech_started_event' = IF ended THEN FALSE ELSE speech_started_event
            /\ speech_frames_counter' = IF counter > 0 THEN counter - 1 ELSE counter
            /\ since_voice' = since_voice

(* client.py:83-96  the debounce update for one classified frame. *)
Debounce(is_speech) ==
  IF is_speech
    THEN /\ speech_frames_counter' = speech_frames_counter + 1
         /\ since_voice' = 0
         /\ speech_started_event' =
              IF speech_frames_counter' >= min_speech_frames
                THEN TRUE ELSE speech_started_event
    ELSE LET ended == speech_started_event
                      /\ since_voice > silence_duration_threshold
             counter == IF ended THEN 0 ELSE speech_frames_counter
         IN /\ speech_started_event' = IF ended THEN FALSE ELSE speech_started_event
            /\ speech_frames_counter' = IF counter > 0 THEN counter - 1 ELSE counter
            /\ since_voice' = since_voice

(* client.py:70-97  one iteration of the loop: a frame is read and         *)
(* classified by vad.is_speech.                                            *)
VadIteration(is_speech) ==
  /\ Alive /\ running
  /\ is_speech => speech_frames_counter < MaxSpeechFrames
  /\ Debounce(is_speech)
  /\ silent_for' = IF is_speech THEN 0 ELSE silent_for
  /\ UNCHANGED << sil_pc, effective_threshold, quiet_run >>
  /\ UNCHANGED << running, sig_pc, pc, clientVars, playback_lock,
                  playback_active, sd_left, mon, netVars, srvVars, histVars >>

VadFrame ==
  \E is_speech \in BOOLEAN :
    /\ VadIteration(is_speech)
    /\ UNCHANGED << speech_run, vad_fault >>

(* The same iteration, observed: speech_run records how many frames in a   *)
(* row, this one included, were classified as speech (counted up to        *)
(* min_speech_frames).                                                     *)
VadFrameObserved ==
  \E is_speech \in BOOLEAN :
    /\ VadIteration(is_speech)
    /\ speech_run' = IF is_speech
                       THEN Min(speech_run + 1, min_speech_frames)
                       ELSE 0
    /\ vad_fault' = "none"

(* client.py:71-75  stream.read raises: the error is printed and the       *)
(* iteration ends at "continue", before any of the state is touched.       *)
VadReadError ==
  /\ Alive /\ running
  /\ vad_fault' = "read"
  /\ UNCHANGED << running, sig_pc, pc, clientVars, speech_started_event,
                  speech_frames_counter, since_voice, speech_run, silent_for,
                  sil_pc, effective_threshold, quiet_run, playback_lock, playback_active, sd_left, mon, netVars,
                  srvVars, histVars >>

(* client.py:77-81  vad.is_speech raises: the error is printed,            *)
(* is_speech = False, and lines 83-97 run as for a non-speech frame.       *)
VadClassifyError ==
  /\ VadIteration(FALSE)
  /\ speech_run' = 0
  /\ vad_fault' = "classify"

(* ======== vad_worker of client_silero_hindi.py (lines 65-118) ======== *)
(* The rest of that client (signal_handler, start_playback and its         *)
(* monitor, stop_playback_safely, is_playback_active, tts_client) is,      *)
(* line for line, the code of client.py modelled above.                    *)

(* client_silero_hindi.py:81-85  stream.read raises: printed, "continue".  *)
SileroReadError ==
  /\ Alive /\ running /\ sil_pc = "read"
  /\ vad_fault' = "read"
  /\ UNCHANGED << running, sig_pc, pc, clientVars, speech_started_event,
                  speech_frames_counter, since_voice, speech_run, silent_for,
                  sil_pc, effective_threshold, quiet_run, playback_lock,
                  playback_active, sd_left, mon, netVars, srvVars, histVars >>

(* SileroSelect with the two thresholds exchanged. *)
SileroSelectSwapped ==
  /\ Alive /\ running /\ sil_pc = "read"
  /\ playback_lock = "free"
  /\ effective_threshold' =
       IF playback_active THEN threshold_idle ELSE threshold_playback
  /\ sil_pc' = "classify"
  /\ UNCHANGED << running, sig_pc, pc, clientVars, speech_started_event,
                  speech_frames_counter, since_voice, speech_run, silent_for,
                  vad_fault, quiet_run, playback_lock, playback_active,
                  sd_left, mon, netVars, srvVars, histVars >>

(* client_silero_hindi.py:80,91-97  a window is complete: the flag is read *)
(* under playback_lock (taken and released within the step) and the        *)
(* threshold chosen.                                                       *)
SileroSelect ==
  /\ Alive /\ running /\ sil_pc = "read"
  /\ playback_lock = "free"
  /\ effective_threshold' =
       IF playback_active THEN threshold_playback ELSE threshold_idle
  /\ sil_pc' = "classify"
  /\ UNCHANGED << running, sig_pc, pc, clientVars, speech_started_event,
                  speech_frames_counter, since_voice, speech_run, silent_for,
                  vad_fault, quiet_run, playback_lock, playback_active,
                  sd_left, mon, netVars, srvVars, histVars >>

(* client_silero_hindi.py:100-117  get_speech_timestamps returns; the      *)
(* event is set when the list is not empty and cleared when it is.         *)
SileroWindow(found) ==
  /\ Alive /\ sil_pc = "classify"
  /\ speech_started_event' = found
  /\ sil_pc' = "read"
  /\ effective_threshold' = None
  /\ UNCHANGED << running, sig_pc, pc, clientVars, speech_frames_counter,
                  since_voice, silent_for, playback_lock, playback_active,
                  sd_left, mon, netVars, srvVars, histVars >>

SileroClassify ==
  \E found \in BOOLEAN :
    /\ SileroWindow(found)
    /\ UNCHANGED << speech_run, quiet_run, vad_fault >>

(* The same step, observed: the runs of windows with and without speech,   *)
(* this one included (counted up to MaxSpeechFrames).                      *)
SileroClassifyObserved ==
  \E found \in BOOLEAN :
    /\ SileroWindow(found)
    /\ speech_run' = IF found THEN Min(speech_run + 1, MaxSpeechFrames) ELSE 0
    /\ quiet_run' = IF found THEN 0 ELSE Min(quiet_run + 1, MaxSpeechFrames)
    /\ vad_fault' = "none"

(* client_silero_hindi.py:100-106  get_speech_timestamps raises: nothing   *)
(* in vad_worker catches it and the thread ends.                           *)
SileroClassifyError ==
  /\ Alive /\ sil_pc = "classify"
  /\ sil_pc' = "dead"
  /\ effective_threshold' = None
  /\ vad_fault' = "classify"
  /\ UNCHANGED << running, sig_pc, pc, clientVars, speech_started_event,
                  speech_frames_counter, since_voice, speech_run, silent_for,
                  quiet_run, playback_lock, playback_active, sd_left, mon,
                  netVars, srvVars, histVars >>

(* ================= tts_handler (server.py:11-40) ================= *)

(* server.py:14  async for message in websocket *)
SrvRecv ==
  /\ srv_pc = "wait" /\ conn = "open" /\ c2s # << >>
  /\ srv_msg' = Head(c2s)
  /\ c2s' = Tail(c2s)
  /\ srv_replies' = 0
  /\ srv_wav' = None
  /\ srv_pc' = "synth"
  /\ UNCHANGED << running, sig_pc, pc, clientVars, vadVars, playback_lock,
                  playback_active, sd_left, mon, conn, s2c, histVars >>

(* server.py:18-28  the pipeline produces the waveform, encoded as WAV. *)
SrvSynthOk ==
  /\ srv_pc = "synth"
  /\ srv_wav' = Synthesize(srv_msg)
  /\ srv_pc' = "send_ok"
  /\ UNCHANGED << running, sig_pc, pc, clientVars, vadVars, playback_lock,
                  playback_active, sd_left, mon, netVars, srv_msg, srv_replies,
                  histVars >>

(* SrvSynthRaise with the exception left to the outer handler            *)
(* (server.py:39-40): tts_handler returns without a reply.                 *)
SrvSynthRaiseEnds ==
  /\ srv_pc = "synth"
  /\ srv_pc' = "ended"
  /\ UNCHANGED << running, sig_pc, pc, clientVars, vadVars, playback_lock,
                  playback_active, sd_left, mon, netVars, srv_msg, srv_wav,
                  srv_replies, histVars >>

(* server.py:19-28,33-34  the pipeline (or the encoding) raises. *)
SrvSynthRaise ==
  /\ srv_pc = "synth"
  /\ srv_pc' = "send_err"
  /\ UNCHANGED << running, sig_pc, pc, clientVars, vadVars, playback_lock,
                  playback_active, sd_left, mon, netVars, srv_msg, srv_wav,
                  srv_replies, histVars >>

(* await websocket.send(payload) on an open connection; the handler goes   *)
(* back to "async for".                                                    *)
SrvSend(payload) ==
  /\ conn = "open"
  /\ s2c' = Append(s2c, [payload |-> payload, re |-> srv_msg])
  /\ srv_replies' = srv_replies + 1
  /\ srv_wav' = None
  /\ srv_pc' = "wait"
  /\ UNCHANGED << running, sig_pc, pc, clientVars, vadVars, playback_lock,
                  playback_active, sd_left, mon, conn, c2s, srv_msg,
                  histVars >>

(* server.py:31 *)
SrvSendOk ==
  /\ srv_pc = "send_ok"
  /\ SrvSend(srv_wav)

(* server.py:36 *)
SrvSendErr ==
  /\ srv_pc = "send_err"
  /\ SrvSend(EmptyPayload)

(* ================= environment ================= *)

(* The network drops the connection; frames in flight are lost. On the    *)
(* server "async for" or send raises ConnectionClosed and tts_handler      *)
(* returns (server.py:14,31,36-38); nothing it does before that reaches    *)
(* the client. The client sees the loss at its next send or recv.          *)
ConnDrop ==
  /\ conn = "open"
  /\ conn' = "lost" /\ c2s' = << >> /\ s2c' = << >>
  /\ srv_pc' = "ended" /\ srv_msg' = None /\ srv_wav' = None /\ srv_replies' = 0
  /\ UNCHANGED << running, sig_pc, pc, clientVars, vadVars, playback_lock,
                  playback_active, sd_left, mon, histVars >>

(* One second passes on every clock: time.time() for vad_worker and the    *)
(* monitors, the output position of sounddevice (which stops by itself at  *)
(* the end of the data), the pending asyncio.sleep(reconnect_delay).       *)
Tick ==
  /\ Alive
  /\ since_voice' = Min(since_voice + 1, silence_duration_threshold + 1)
  /\ silent_for' = Min(silent_for + 1, silence_duration_threshold + 1)
  /\ backoff_elapsed' = IF pc = "backoff"
                          THEN Min(backoff_elapsed + 1, reconnect_delay)
                          ELSE backoff_elapsed
  /\ mon' = Ordered([i \in Monitors |->
               IF mon[i].left > 0 THEN [mon[i] EXCEPT !.left = @ - 1]
               ELSE mon[i]])
  /\ sd_left' = IF sd_left > 0 THEN sd_left - 1 ELSE sd_left
  /\ << since_voice', backoff_elapsed', mon', sd_left' >>
       # << since_voice, backoff_elapsed, mon, sd_left >>
  /\ UNCHANGED << running, sig_pc, pc, tts_requested, tts_audio, wav_bytes,
                  speech_started_event, speech_frames_counter, speech_run,
                  vad_fault, sil_pc, effective_threshold, quiet_run,
                  playback_lock, playback_active, netVars, srvVars, histVars >>

(* ================= specification ================= *)

Next ==
  \/ LoopOuter \/ ConnectOk \/ ConnectFail \/ LoopInner
  \/ IsActiveRead \/ BargeCheck
  \/ BargeStopAcquire \/ BargeStopBody \/ BargeReset
  \/ BargeSend \/ BargeSendFail \/ BargeRecv \/ BargeRecvFail
  \/ ReqCheck \/ Send \/ SendFail \/ Recv \/ RecvFail
  \/ PlayCheck \/ PlayActiveAcquire \/ PlayActiveRead
  \/ StartAcquire \/ StartSetActive \/ StartPlay
  \/ StartPlayFail \/ StartExcAcquire \/ StartExcBody
  \/ Sleep \/ Backoff
  \/ \E i \in Monitors :
       \/ MonAcquireCheck(i) \/ MonCheck(i)
       \/ MonAcquireFinal(i) \/ MonClear(i)
  \/ Interrupt \/ HandlerStopExit
  \/ VadFrame
  \/ SrvRecv \/ SrvSynthOk \/ SrvSynthRaise \/ SrvSendOk \/ SrvSendErr
  \/ ConnDrop
  \/ Tick

Spec == Init /\ [][Next]_vars

(* vad_worker on its own, with the clock and the signal handler that ends  *)
(* its loop, and with its frames observed.                                 *)
VadNext ==
  \/ VadFrameObserved
  \/ VadReadError \/ VadClassifyError
  \/ Tick
  \/ Interrupt \/ HandlerStopExit

VadSpec == Init /\ [][VadNext]_vars

(* client_silero_hindi.py: the client with the Silero vad_worker. *)
SileroNext ==
  \/ LoopOuter \/ ConnectOk \/ ConnectFail \/ LoopInner
  \/ IsActiveRead \/ BargeCheck
  \/ BargeStopAcquire \/ BargeStopBody \/ BargeReset
  \/ BargeSend \/ BargeSendFail \/ BargeRecv \/ BargeRecvFail
  \/ ReqCheck \/ Send \/ SendFail \/ Recv \/ RecvFail
  \/ PlayCheck \/ PlayActiveAcquire \/ PlayActiveRead
  \/ StartAcquire \/ StartSetActive \/ StartPlay
  \/ StartPlayFail \/ StartExcAcquire \/ StartExcBody
  \/ Sleep \/ Backoff
  \/ \E i \in Monitors :
       \/ MonAcquireCheck(i) \/ MonCheck(i)
       \/ MonAcquireFinal(i) \/ MonClear(i)
  \/ Interrupt \/ HandlerStopExit
  \/ SileroSelect \/ SileroClassify \/ SileroClassifyError
  \/ SrvRecv \/ SrvSynthOk \/ SrvSynthRaise \/ SrvSendOk \/ SrvSendErr
  \/ ConnDrop
  \/ Tick

SileroSpec == Init /\ [][SileroNext]_vars

(* Its vad_worker on its own, with the clock and the signal handler, and   *)
(* with its windows observed.                                              *)
SileroVadNext ==
  \/ SileroReadError
  \/ SileroSelect \/ SileroClassifyObserved \/ SileroClassifyError
  \/ Tick
  \/ Interrupt \/ HandlerStopExit

SileroVadSpec == Init /\ [][SileroVadNext]_vars

(* ================= properties ================= *)

(* Positions of tts_client inside a call of start_playback. *)
StartPcs == {"start_lock", "start_cs", "start_play", "start_exc", "start_exc_cs"}

(* Positions of tts_client at a send or recv on the websocket. *)
SocketPcs == {"send", "recv", "barge_send", "barge_recv"}

(* What every step of a barge-in tick does, but for the step after the     *)
(* reset, whose successor is next.                                         *)
BargeInSteps(next) ==
  /\ (pc = "barge_chk" /\ speech_started_event /\ pc' # pc) => pc' = "barge_stop"
  /\ (pc = "barge_stop" /\ pc' # pc) => pc' = "barge_stop_cs"
  /\ (pc = "barge_stop_cs" /\ pc' # pc) =>
       (pc' = "barge_reset" /\ ~playback_active')
  /\ (pc = "barge_reset" /\ pc' # pc) =>
       (~tts_requested' /\ tts_audio' = None /\ pc' = next)
  /\ (pc = "barge_send" /\ pc' # pc) =>
       \/ pc' = "barge_recv" /\ outstanding' = 1
       \/ conn = "lost" /\ pc' = "backoff"
  /\ barge_pending' => pc' \notin StartPcs

C2_OneSessionAtATime == pc \in StartPcs => ~SdPlaying

(* C3: start_playback is entered only in a tick that read the event as     *)
(* cleared while a reply was held (ReadyToPlay) and then found playback    *)
(* inactive; a tick that reads the event as set while a reply is held      *)
(* starts nothing.                                                         *)
C3_StartOnlyWhenSpeechCleared ==
  [][ /\ (pc' \in StartPcs /\ pc \notin StartPcs) =>
           (pc = "play_active_cs" /\ ~playback_active
              /\ tts_audio # None /\ tts_requested)
      /\ (pc' = "play_active_cs" /\ pc # pc') => pc = "play_active"
      /\ (pc' = "play_active" /\ pc # pc') =>
           (pc = "play_chk" /\ ~speech_started_event /\ tts_audio # None)
      /\ (pc = "play_chk" /\ speech_started_event /\ pc' # pc) => pc' = "sleep"
    ]_vars

(* start_playback entered with the held reply while the event is clear. *)
C3_Witness ==
  pc = "start_lock" /\ wav_bytes = tts_audio /\ tts_requested
    /\ ~speech_started_event

(* C4: a request is sent from Idle with the event set; its reply is held,  *)
(* unchanged, in ReadyToPlay; the tick that reads the event as cleared     *)
(* calls start_playback with exactly that reply; when start_playback       *)
(* returns the state is Idle; no reply is passed to start_playback twice.  *)
C4_SuccessfulCycle ==
  [][ /\ (pc' = "send" /\ pc # "send") =>
           (speech_started_event /\ ~tts_requested /\ tts_audio = None)
      /\ (pc \in {"recv", "barge_recv"} /\ pc' \notin {pc, "backoff"}) =>
           (tts_requested' /\ tts_audio' = Head(s2c).payload /\ plays' = 0)
      /\ (tts_audio # None /\ tts_audio' # tts_audio) =>
           (tts_audio' = None /\ ~tts_requested')
      /\ (pc = "play_chk" /\ pc' # pc /\ ~speech_started_event
            /\ tts_audio # None) => pc' = "play_active"
      /\ (pc = "play_active" /\ pc' # pc) => pc' = "play_active_cs"
      /\ (pc = "play_active_cs" /\ pc' # pc) =>
           (~playback_active /\ pc' \in StartPcs
              /\ wav_bytes' = tts_audio /\ plays' = 1)
      /\ (pc \in StartPcs /\ pc' \notin StartPcs) =>
           (pc' = "sleep" /\ ~tts_requested' /\ tts_audio' = None)
      /\ plays' <= 1
    ]_vars

(* The device is about to play a decoded reply, passed once. *)
C4_Witness ==
  pc = "start_play" /\ Decodable(wav_bytes) /\ wav_bytes = tts_audio
    /\ plays = 1 /\ playback_active

(* C5: when the reply is the zero-length payload the state is Idle once    *)
(* the request has returned.                                               *)
C5_EmptyReplyIsIdle ==
  [][ (pc \in {"recv", "barge_recv"} /\ pc' \notin {pc, "backoff"}
         /\ s2c # << >> /\ Head(s2c).payload = EmptyPayload) =>
        (~tts_requested' /\ tts_audio' = None)
    ]_vars

(* C6: a send or recv on a lost connection leads to the backoff sleep and  *)
(* from there back to the loop head; in the backoff sleep the state is     *)
(* Idle, the connection is closed and nothing is outstanding; recv is only *)
(* ever awaited for a request sent on the connection in use.               *)
C6_TransportFailure ==
  [][ /\ (pc \in SocketPcs /\ conn = "lost" /\ pc' # pc) => pc' = "backoff"
      /\ pc' = "backoff" =>
           (~tts_requested' /\ tts_audio' = None /\ conn' = "closed"
              /\ outstanding' = 0 /\ s2c' = << >>)
      /\ (pc' \in {"recv", "barge_recv"} /\ sig_pc' # "exited") =>
           (conn' # "closed" /\ (conn' = "open" => outstanding' = 1))
      /\ (pc = "backoff" /\ pc' # pc) => pc' = "outer"
    ]_vars

(* The backoff sleep entered from a failed send or recv of a barge-in. *)
C6_Witness ==
  pc = "backoff" /\ barge_pending /\ conn = "closed" /\ running

(* The handler waits for a lock owned by the frame it interrupted: no step *)
(* of any thread releases it.                                              *)
HandlerCanFinish ==
  \/ sig_pc = "exited"
  \/ ENABLED HandlerStopExit
  \/ playback_lock = "monitor"

(* C7: after the backoff the loop head is reached again while running;     *)
(* once running is false no connect is attempted and the client            *)
(* terminates.                                                             *)
C7_Reconnection ==
  /\ (pc = "backoff" /\ MainRuns /\ backoff_elapsed >= reconnect_delay) =>
       ENABLED Backoff
  /\ ~running => (~ENABLED ConnectOk /\ ~ENABLED ConnectFail)
  /\ ~running => HandlerCanFinish

(* C8: at most one request is outstanding on a connection; a request is    *)
(* sent only when nothing is outstanding or in flight; a reply in flight   *)
(* is the only one and answers the latest request.                         *)
C8_RequestThenResponse ==
  /\ outstanding \in {0, 1}
  /\ pc \in {"send", "barge_send"} =>
       (outstanding = 0 /\ c2s = << >> /\ s2c = << >>)
  /\ Len(c2s) + Len(s2c) <= 1
  /\ s2c # << >> => (Head(s2c).re = last_sent /\ outstanding = 1)

(* A reply in flight to the client that awaits it. *)
C8_Witness ==
  pc = "recv" /\ s2c # << >> /\ conn = "open" /\ outstanding = 1

(* C9: tts_handler reads the next message only after exactly one reply to  *)
(* the previous one; the reply is the waveform when synthesis succeeded    *)
(* and the zero-length payload when it raised; a raise leaves the          *)
(* connection open and the handler in its loop.                            *)
C9_ServerReplyDiscipline ==
  [][ /\ (srv_pc = "wait" /\ srv_pc' = "synth") =>
           (srv_msg = None \/ srv_replies = 1)
      /\ (srv_pc = "synth" /\ srv_pc' # srv_pc /\ conn' = "open") =>
           (srv_pc' \in {"send_ok", "send_err"} /\ s2c' = s2c)
      /\ (srv_pc = "send_ok" /\ srv_pc' # srv_pc /\ conn' = "open") =>
           /\ srv_pc' = "wait" /\ srv_replies' = 1
           /\ Synthesize(srv_msg) # EmptyPayload
           /\ s2c' = Append(s2c, [payload |-> Synthesize(srv_msg),
                                  re |-> srv_msg])
      /\ (srv_pc = "send_err" /\ srv_pc' # srv_pc /\ conn' = "open") =>
           /\ srv_pc' = "wait" /\ srv_replies' = 1
           /\ s2c' = Append(s2c, [payload |-> EmptyPayload, re |-> srv_msg])
      /\ srv_replies' <= 1
    ]_vars

(* The failure reply is in flight and the handler waits for the next       *)
(* message on the open connection.                                         *)
C9_Witness ==
  srv_pc = "wait" /\ conn = "open" /\ s2c # << >>
    /\ Head(s2c).payload = EmptyPayload /\ srv_replies = 1

(* C10: the event goes from clear to set only at a frame that ends a run   *)
(* of at least min_speech_frames frames classified as speech.              *)
C10_RisingEdgeAfterRun ==
  [][ (~speech_started_event /\ speech_started_event') =>
        speech_run' >= min_speech_frames ]_vars

(* C11: the event goes from set to clear only when more than               *)
(* silence_duration_threshold seconds have passed since a frame was last   *)
(* classified as speech; a speech frame starts the measurement again.      *)
C11_FallingEdgeAfterSilence ==
  [][ /\ (speech_started_event /\ ~speech_started_event') =>
           (silent_for > silence_duration_threshold /\ speech_run' = 0)
      /\ (speech_run' > speech_run) => (silent_for' = 0 /\ since_voice' = 0)
    ]_vars

(* The event is still set although non-speech frames have worn the        *)
(* counter down, and the silence is now long enough for the next one to    *)
(* clear it.                                                               *)
C11_Witness ==
  speech_started_event /\ speech_frames_counter < min_speech_frames
    /\ speech_run = 0 /\ silent_for > silence_duration_threshold /\ running

(* A call of stop_playback_safely runs its body: from the barge-in tick    *)
(* (client.py:172) or from signal_handler (client.py:23).                  *)
StopStep ==
  \/ pc = "barge_stop_cs" /\ pc' # pc
  \/ sig_pc = "h_stop" /\ sig_pc' # sig_pc

(* C12: every call of stop_playback_safely returns normally with           *)
(* playback_active false and the lock released; a call that finds the flag *)
(* already false, such as the second of two calls in a row, leaves the     *)
(* flag and the device as they are.                                        *)
C12_StopIdempotent ==
  [][ StopStep =>
        /\ ~playback_active'
        /\ playback_lock' = "free"
        /\ pc = "barge_stop_cs" => pc' = "barge_reset"
        /\ sig_pc = "h_stop" => sig_pc' = "exited"
        /\ ~playback_active => sd_left' = sd_left
    ]_vars

(* Two calls in a row, by the barge-in tick and then by the handler: the   *)
(* first one's sd.stop() raised, the second found the flag false and left  *)
(* the device alone.                                                       *)
C12_Witness ==
  sig_pc = "exited" /\ pc = "barge_reset" /\ ~playback_active /\ SdPlaying

(* C13: once SIGINT has been delivered running is false and the handler   *)
(* is never stuck: it can take playback_lock now, or the lock is held by a *)
(* monitor thread, which releases it at its next step; when the handler    *)
(* has exited, playback is inactive.                                       *)
C13_HandlerCompletes ==
  /\ sig_pc = "h_stop" =>
       (~running /\ (ENABLED HandlerStopExit \/ playback_lock = "monitor"))
  /\ sig_pc = "exited" => (~running /\ ~playback_active)

(* C14: after running has been cleared, a step that clears playback_active *)
(* while the device is playing also stops the device, and the handler's    *)
(* stop_playback_safely, when it runs while the device is playing, still   *)
(* finds the flag set and so reaches sd.stop().                            *)
C14_ForcedStopOnShutdown ==
  [][ /\ (~running /\ playback_active /\ ~playback_active' /\ SdPlaying) =>
           sd_left' = 0
      /\ (sig_pc = "h_stop" /\ sig_pc' = "exited" /\ SdPlaying) =>
           playback_active
    ]_vars

(* A monitor thread executes client.py:125 and the flag goes from true to  *)
(* false.                                                                  *)
MonitorClears ==
  playback_lock = "monitor" /\ playback_active /\ ~playback_active'

(* C15: playback_active changes only in a step of the thread that holds    *)
(* playback_lock (the handler takes and releases it within its step); it   *)
(* goes from false to true only at client.py:112; and a monitor thread     *)
(* does not make the transition for a session that is not its own: while   *)
(* start_playback stands between lines 112 and 113 the new session has no  *)
(* monitor yet, and the flag of the monitor's own session has already gone *)
(* from true to false once.                                                *)
C15_WatcherStopRace ==
  [][ /\ (playback_active' # playback_active) =>
           \/ playback_lock \in {"main", "monitor"} /\ playback_lock' = "free"
           \/ sig_pc = "h_stop" /\ sig_pc' = "exited" /\ playback_lock = "free"
      /\ (~playback_active /\ playback_active') =>
           (pc = "start_cs" /\ pc' = "start_play")
      /\ MonitorClears => pc # "start_play"
    ]_vars

(* C20: while running, a monitor thread clears playback_active only when   *)
(* the device is silent: the monitor of a session that was stopped never   *)
(* clears the flag while a later session is playing.                       *)
C20_NoStaleWatcher ==
  [][ (MonitorClears /\ running) => ~SdPlaying ]_vars

(* C16: the except branch of start_playback is entered from the decode of  *)
(* a payload that is no WAV file or from sd.play raising; up to its return *)
(* no monitor thread is started and the event, the device and the          *)
(* connection are left alone; on return playback_active is false and the   *)
(* orchestrator is Idle at its sleep, the payload dropped.                 *)
C16_StartFailure ==
  [][ /\ (pc' = "start_exc" /\ pc # pc') =>
           \/ pc = "play_active_cs" /\ ~Decodable(tts_audio) /\ ~playback_active
           \/ pc = "start_play" /\ Decodable(wav_bytes)
      /\ ((pc' = "start_exc" \/ pc \in {"start_exc", "start_exc_cs"})
            /\ pc # pc') =>
           (mon' = mon /\ sd_left' = sd_left /\ conn' = conn
              /\ speech_started_event' = speech_started_event)
      /\ (pc = "start_exc" /\ pc # pc') => pc' = "start_exc_cs"
      /\ (pc = "start_exc_cs" /\ pc # pc') =>
           (pc' = "sleep" /\ ~playback_active' /\ playback_lock' = "free"
              /\ ~tts_requested' /\ tts_audio' = None)
    ]_vars

(* sd.play has raised after line 112 set the flag; the except branch holds *)
(* the lock and is about to clear it.                                      *)
C16_Witness ==
  pc = "start_exc_cs" /\ playback_active /\ Decodable(wav_bytes)
    /\ wav_bytes = tts_audio

(* C17: an iteration of vad_worker that ends in a capture error or a       *)
(* classification error leaves the event and the debounce counter as they  *)
(* were.                                                                   *)
C17_FaultsAreSkipped ==
  [][ vad_fault' # "none" =>
        /\ speech_started_event' = speech_started_event
        /\ speech_frames_counter' = speech_frames_counter
    ]_vars

(* The threshold that goes with a value of playback_active. *)
ThresholdFor(active) == IF active THEN threshold_playback ELSE threshold_idle

(* vad_worker of client_silero_hindi.py never writes playback_active and   *)
(* leaves playback_lock as it found it.                                    *)
SileroReadsOnly ==
  sil_pc' # sil_pc =>
    (playback_active' = playback_active /\ playback_lock' = playback_lock)

C19_SileroDebounced ==
  [][ (speech_started_event' # speech_started_event) =>
        (IF speech_started_event' THEN speech_run' ELSE quiet_run') > 1
    ]_vars

(* Positions at which tts_client is suspended without polling: in a send   *)
(* or recv of a request, in websockets.connect, or in the backoff sleep.   *)
NotPolling == SocketPcs \cup {"backoff", "connect"}

(* The part of C21 that is about the flag: while tts_client is not         *)
(* polling, playback_active is false, and no step taken meanwhile sets it. *)
FlagClearWhileNotPolling ==
  [][ (pc \in NotPolling) => (~playback_active /\ playback_active' = FALSE)
    ]_vars

(* C21: whenever tts_client is not polling (suspended in a send or recv of *)
(* a request, in connect, or in the reconnect backoff), playback_active is *)
(* false and no reply is playing: the device is never producing sound at a *)
(* time when tts_client cannot react to a barge-in.                        *)
C21_NoPlaybackWhileNotPolling ==
  pc \in NotPolling => (~playback_active /\ ~SdPlaying)

(* Positions of tts_client at an await: connect, send, recv, the poll      *)
(* sleep and the backoff sleep.                                            *)
AwaitPcs == NotPolling \cup {"sleep"}

====
